---- MODULE Spec2Model ----
(***************************************************************************)
(* Word Visualizer (src/src/App.tsx): the state held by the App component  *)
(* and the handlers that change it.                                        *)
(*                                                                         *)
(* A handler runs atomically up to its first await; what follows the await *)
(* is a separate step that still reads the values the handler closed over  *)
(* when it was called (models, activeModelIndex, highlightedWords,         *)
(* wordPos), while functional updates (setX(prev => ...)) read the current *)
(* state.  Embedding objects are shared by every copy of a model list, so  *)
(* their tags live in one store, embeddings, keyed by model id.            *)
(*                                                                         *)
(* Strings are tuples of one-character strings.                            *)
(***************************************************************************)
EXTENDS Integers, Sequences, FiniteSets, Bags, TLC

\* ------------------------------------------------------------- bounds
\* User operations (a file chosen, a button pressed) in one run, and
\* awaits in flight at one time.
MaxOperations == 4
MaxTasks == 1
\* Characters in a paragraph whose extraction is checked over every text.
MaxLen == 4

\* ------------------------------------------------------------ strings
Upper == {"A", "B", "C"}
Lower == {"a", "b", "c", "x", "z"}
Digits == {"0", "1", "2"}
Quotes == {"\"", "'"}

toLowerCaseChar(c) ==
    CASE c = "A" -> "a" [] c = "B" -> "b" [] c = "C" -> "c" [] OTHER -> c

toLowerCase(s) == [i \in 1..Len(s) |-> toLowerCaseChar(s[i])]

RECURSIVE trimStart(_)
trimStart(s) == IF s # <<>> /\ Head(s) = " " THEN trimStart(Tail(s)) ELSE s

RECURSIVE trimEnd(_)
trimEnd(s) ==
    IF s # <<>> /\ s[Len(s)] = " " THEN trimEnd(SubSeq(s, 1, Len(s) - 1)) ELSE s

trim(s) == trimEnd(trimStart(s))

\* s.replace(/^["']|["']$/g, ''): one quote off the front, one off the end.
stripQuotes(s) ==
    LET a == IF s # <<>> /\ Head(s) \in Quotes THEN Tail(s) ELSE s
    IN  IF a # <<>> /\ a[Len(a)] \in Quotes THEN SubSeq(a, 1, Len(a) - 1) ELSE a

\* isNaN(Number(s)) for strings over the alphabet above: Number trims, reads
\* the empty string as 0 and otherwise wants a decimal literal.
NumberIsNaN(s) ==
    LET t == trim(s)
        body == IF t # <<>> /\ Head(t) \in {"-", "+"} THEN Tail(t) ELSE t
        dots == {i \in 1..Len(body) : body[i] = "."}
        digs == {i \in 1..Len(body) : body[i] \in Digits}
    IN  IF t = <<>> THEN FALSE
        ELSE ~(/\ dots \cup digs = 1..Len(body)
               /\ Cardinality(dots) <= 1
               /\ digs # {})

Includes(seq, x) == \E i \in 1..Len(seq) : seq[i] = x

\* ---------------------------------------------------------- CSV input
\* The rows PapaParse hands to the complete callback, one tuple per row.
File1 ==
    << << <<"0", ".", "1">>, <<"0", ".", "2">>, <<"A">> >>,
       << <<"x">>, <<"0", ".", "1">>, <<"c">> >>,
       << <<"1">>, <<"2">>, <<".">> >>,
       << <<"\"", "1", "\"">>, <<>>, <<" ", "\"", "b", "\"">> >> >>

File2 ==
    << << <<"x">>, <<"y">>, <<"z">> >>,
       << <<"b">> >>,
       << <<"1">>, <<"-", "1">>, <<"B">> >>,
       << <<"2">>, <<"0">>, <<"b">> >> >>

File3 ==
    << << <<"x">>, <<"1">>, <<"a">> >>,
       << <<"1">>, <<"1">>, <<".">> >>,
       << <<"1">>, <<"1">>, <<" ">> >> >>

Files == <<File1, File2, File3>>

\* Part-of-speech taxonomy; NoPos is an embedding whose pos is undefined.
NoPos == "undefined"
Taxonomy == {"noun", "verb", "adjective", "adverb", "unknown"}

\* One row of results.data.forEach: "skip" (not counted), "invalid"
\* (invalidCount++) or the key the row is stored under.
RowWord(row) == stripQuotes(trim(row[3]))

RowClass(row) ==
    IF Len(row) < 3 THEN "skip"
    ELSE IF RowWord(row) = <<>> \/ RowWord(row) = <<".">> THEN "skip"
    ELSE IF \/ NumberIsNaN(trim(stripQuotes(row[1])))
            \/ NumberIsNaN(trim(stripQuotes(row[2]))) THEN "invalid"
    ELSE "valid"

ValidRows(rows) == {i \in 1..Len(rows) : RowClass(rows[i]) = "valid"}

invalidCount(rows) == Cardinality({i \in 1..Len(rows) : RowClass(rows[i]) = "invalid"})

\* embeddingsMap: key -> pos, the pos read from the wordPos the handler closed over.
embeddingsMap(rows, cache) ==
    LET keys == {toLowerCase(RowWord(rows[i])) : i \in ValidRows(rows)}
    IN  [w \in keys |-> IF w \in DOMAIN cache THEN cache[w] ELSE NoPos]


\* ------------------------------------------------- paragraph extraction
Text1 == <<" ", "A", ",", "b", "2", " ", "B", " ", " ", "a", ".">>
Text2 == <<"z", " ", "1">>
Text3 == <<" ">>
Texts == {Text1, Text2, Text3}

\* .replace(/[^\w\s]|_/g, " ") on a lower-cased character.
replacePunctuation(c) == IF c \in Lower \cup Digits \/ c = " " THEN c ELSE " "

\* .replace(/\s+/g, " ").trim().split(" "): the maximal runs without a space;
\* the empty string splits into one empty token.
splitRuns(s) ==
    LET starts == {i \in 1..Len(s) : s[i] # " " /\ (i = 1 \/ s[i - 1] = " ")}
        start(k) == CHOOSE i \in starts : Cardinality({j \in starts : j < i}) = k - 1
        end(i) == CHOOSE j \in i..Len(s) :
                      /\ \A m \in i..j : s[m] # " "
                      /\ j = Len(s) \/ s[j + 1] = " "
    IN  [k \in 1..Cardinality(starts) |-> SubSeq(s, start(k), end(start(k)))]

split(s) == IF splitRuns(s) = <<>> THEN << <<>> >> ELSE splitRuns(s)

hasDigit_never(w) == FALSE

\* /\d/.test(word)
hasDigit(w) == \E i \in 1..Len(w) : w[i] \in Digits

\* words (lines 1159-1168)
paragraphWords(text) ==
    LET lowered == toLowerCase(trim(text))
        spaced == [i \in 1..Len(lowered) |-> replacePunctuation(lowered[i])]
    IN  SelectSeq(split(spaced), LAMBDA w : Len(w) > 0 /\ ~hasDigit(w))

\* [...new Set(words)]: first occurrences, in order.
unique(s) ==
    LET firsts == {i \in 1..Len(s) : \A j \in 1..(i - 1) : s[j] # s[i]}
        first(k) == CHOOSE i \in firsts : Cardinality({j \in firsts : j < i}) = k - 1
    IN  [k \in 1..Cardinality(firsts) |-> s[first(k)]]

\* foundWords (line 1171), vocabulary being the keys of the active model.
foundWords(text, vocabulary) ==
    SelectSeq(unique(paragraphWords(text)), LAMBDA w : w \in vocabulary)

\* --------------------------------------------------- dictionary service
\* What a lookup can come back with: an entry with a part of speech and a
\* definition ("data"), a well-formed body without an entry ("absent"), or
\* a failed request or unusable body ("error").
Responses ==
    { [kind |-> "data", partOfSpeech |-> "noun"],
      [kind |-> "data", partOfSpeech |-> "pronoun"],
      [kind |-> "absent", partOfSpeech |-> ""],
      [kind |-> "error", partOfSpeech |-> ""] }

normalizedPos_raw(partOfSpeech) == partOfSpeech

normalizedPos(partOfSpeech) ==
    IF partOfSpeech = "noun" THEN "noun"
    ELSE IF partOfSpeech = "verb" THEN "verb"
    ELSE IF partOfSpeech = "adjective" THEN "adjective"
    ELSE IF partOfSpeech = "adverb" THEN "adverb"
    ELSE "unknown"

getWordPosDirectly_raw(r) ==
    IF r.kind = "data" THEN normalizedPos(r.partOfSpeech) ELSE NoPos

\* getWordPosDirectly: the value it resolves to; it never rejects.
getWordPosDirectly(r) ==
    IF r.kind = "data" THEN normalizedPos(r.partOfSpeech) ELSE "unknown"

\* ---------------------------------------------------------------- state
VARIABLES
    models,              \* the model list, as model ids
    embeddings,          \* model id -> (key -> pos of that embedding object)
    activeModelIndex,    \* 0-based index into models, -1 for none
    highlightedWords,
    wordPos,             \* part-of-speech cache: key -> pos
    wordMeanings,        \* keys that have a cached definition
    savedParagraphs,     \* records id, text, words
    activeParagraphId,   \* a paragraph id, or 0 for null
    expandedParagraphId, \* a paragraph id, or 0 for null
    isLoading,
    error,               \* the failure last reported, "" for none
    loads,               \* CSV parses in flight
    searches,            \* handleSearch calls awaiting their lookup
    submissions,         \* processParagraphWords calls in flight
    fetches,             \* fetchData runs of the effect awaiting a lookup
    paragraphIds,        \* how many paragraph ids were generated
    issued,              \* the dictionary lookups issued by the last step
    operations,          \* how many user operations were made
    maxInFlight          \* how many awaits the run lets be in flight at a time

store == <<models, embeddings, activeModelIndex, wordPos, wordMeanings>>
view == <<highlightedWords, savedParagraphs, activeParagraphId, expandedParagraphId,
         paragraphIds>>
tasks == <<loads, searches, submissions, fetches>>
vars == <<store, view, tasks, isLoading, error, issued, operations, maxInFlight>>

NoError == ""

Init ==
    /\ models = <<>>
    /\ embeddings = <<>>
    /\ activeModelIndex = -1
    /\ highlightedWords = <<>>
    /\ wordPos = [w \in {} |-> NoPos]
    /\ wordMeanings = {}
    /\ savedParagraphs = <<>>
    /\ activeParagraphId = 0
    /\ expandedParagraphId = 0
    /\ isLoading = FALSE
    /\ error = NoError
    /\ loads = EmptyBag
    /\ searches = EmptyBag
    /\ submissions = EmptyBag
    /\ fetches = EmptyBag
    /\ paragraphIds = 0
    /\ issued = {}
    /\ operations = 0
    /\ maxInFlight = MaxTasks

\* ------------------------------------------------------------- helpers
InRange(list, index) == index >= 0 /\ index < Len(list)

\* The render reads models[activeModelIndex] whenever activeModelIndex is not
\* -1 (lines 791, 1655); with no such model it throws and the component is
\* gone, so no handler runs from such a state.
Mounted == activeModelIndex = -1 \/ InRange(models, activeModelIndex)

Vocabulary(m) == DOMAIN embeddings[m]

\* A handler called from the page, and a continuation of one already called.
UserOperation ==
    /\ Mounted
    /\ operations < MaxOperations
    /\ operations' = operations + 1
    /\ UNCHANGED maxInFlight

Continuation ==
    /\ Mounted
    /\ UNCHANGED <<operations, maxInFlight>>

InFlight ==
    BagCardinality(loads) + BagCardinality(searches)
        + BagCardinality(submissions) + BagCardinality(fetches)

Put_fresh(f, k, v) == [x \in {k} |-> v]

\* new Map(prev).set(k, v)
Put(f, k, v) == [x \in DOMAIN f \cup {k} |-> IF x = k THEN v ELSE f[x]]

\* embedding.pos = pos on the embedding object of model m, when it has one.
SetPos(store_, m, w, pos) ==
    IF w \in DOMAIN store_[m]
    THEN [store_ EXCEPT ![m] = [@ EXCEPT ![w] = pos]]
    ELSE store_

\* The words fetchData awaits a lookup for, in order (line 750).
fetchTodo(words, meanings, cache) ==
    SelectSeq(words, LAMBDA w : w \notin meanings \/ w \notin DOMAIN cache)

\* The effect of lines 744-757: after a render in which one of its
\* dependencies was replaced, fetchData starts over the highlighted words and
\* runs up to its first lookup.
useEffectFetchData(changed, running, lookups) ==
    LET todo == fetchTodo(highlightedWords', wordMeanings', wordPos')
        run == [todo |-> todo, snapModels |-> models',
                snapActive |-> activeModelIndex']
    IN  IF changed /\ todo # <<>>
        THEN /\ fetches' = running (+) SetToBag({run})
             /\ issued' = lookups \cup {Head(todo)}
             /\ InFlight' <= maxInFlight
        ELSE /\ fetches' = running
             /\ issued' = lookups
             /\ InFlight' <= maxInFlight


\* -------------------------------------------------------------- loading
\* handleFileUpload up to Papa.parse (lines 553-558): the callback keeps the
\* models and wordPos of the render the file was chosen in.
handleFileUpload(f) ==
    /\ UserOperation
    /\ loads' = loads (+) SetToBag({[file |-> f, snapLength |-> Len(models),
                                      snapWordPos |-> wordPos]})
    /\ isLoading' = TRUE
    /\ error' = NoError
    /\ UNCHANGED <<store, view, searches, submissions>>
    /\ useEffectFetchData(FALSE, fetches, {})

noValidEmbeddings_never(map) == FALSE

\* embeddingsMap.size === 0 (line 596)
noValidEmbeddings(map) == DOMAIN map = {}

\* setActiveModelIndex(models.length) (line 609), models being the closed-over list.
activeAfterLoad(snapLength, currentLength) == snapLength

\* complete (lines 559-614).
parseComplete(t) ==
    /\ Continuation
    /\ BagIn(t, loads)
    /\ loads' = loads (-) SetToBag({t})
    /\ LET map == embeddingsMap(Files[t.file], t.snapWordPos)
       IN  IF noValidEmbeddings(map)
           THEN /\ error' = "EmptyModel"
                /\ UNCHANGED <<store, view>>
           ELSE /\ embeddings' = Append(embeddings, map)
                /\ models' = Append(models, Len(embeddings) + 1)
                /\ activeModelIndex' = activeAfterLoad(t.snapLength, Len(models))
                /\ error' = error
                /\ UNCHANGED <<wordPos, wordMeanings, view>>
    /\ isLoading' = FALSE
    /\ UNCHANGED <<searches, submissions>>
    /\ useEffectFetchData(models' # models, fetches, {})

\* error (lines 615-619).
parseError(t) ==
    /\ Continuation
    /\ BagIn(t, loads)
    /\ loads' = loads (-) SetToBag({t})
    /\ error' = "ParseError"
    /\ isLoading' = FALSE
    /\ UNCHANGED <<store, view, searches, submissions>>
    /\ useEffectFetchData(FALSE, fetches, {})

\* ------------------------------------------------------ model management
activeAfterRemove_noShift(active, indexToRemove) ==
    IF active = indexToRemove THEN -1 ELSE active

activeAfterRemove(active, indexToRemove) ==
    IF active = indexToRemove THEN -1
    ELSE IF active > indexToRemove THEN active - 1
    ELSE active

highlightedAfterRemove_keep(words, active, indexToRemove) == words

highlightedAfterRemove(words, active, indexToRemove) ==
    IF active = indexToRemove THEN <<>> ELSE words

\* prevModels.filter((_, index) => index !== indexToRemove)
withoutIndex(list, indexToRemove) ==
    [i \in 1..(Len(list) - 1) |-> IF i <= indexToRemove THEN list[i] ELSE list[i + 1]]

\* removeModel (lines 859-869).
removeModel(indexToRemove) ==
    /\ UserOperation
    /\ InRange(models, indexToRemove)
    /\ models' = withoutIndex(models, indexToRemove)
    /\ activeModelIndex' = activeAfterRemove(activeModelIndex, indexToRemove)
    /\ highlightedWords' = highlightedAfterRemove(highlightedWords, activeModelIndex, indexToRemove)
    /\ error' = IF activeModelIndex = indexToRemove THEN NoError ELSE error
    /\ UNCHANGED <<embeddings, wordPos, wordMeanings, savedParagraphs,
                   activeParagraphId, expandedParagraphId, paragraphIds,
                   isLoading, loads, searches, submissions>>
    /\ useEffectFetchData(TRUE, fetches, {})

applyCache_untaggedOnly(map, cache) ==
    [w \in DOMAIN map |->
        IF w \in DOMAIN cache /\ map[w] = NoPos THEN cache[w] ELSE map[w]]

\* The loop of lines 886-892 on the embeddings of model m.
applyCache(map, cache) ==
    [w \in DOMAIN map |-> IF w \in DOMAIN cache THEN cache[w] ELSE map[w]]

highlightedAfterSelect_keep(words, vocabulary) == words

\* prevWords.filter(word => newModel.embeddings.has(word)) (lines 899-901)
highlightedAfterSelect(words, vocabulary) ==
    SelectSeq(words, LAMBDA w : w \in vocabulary)

\* selectModel (lines 872-905).
selectModel(index) ==
    /\ UserOperation
    /\ InRange(models, index)
    /\ UNCHANGED <<isLoading, loads, searches, submissions>>
    /\ IF index = activeModelIndex
       THEN /\ UNCHANGED <<store, view, error>>
            /\ useEffectFetchData(FALSE, fetches, {})
       ELSE LET m == models[index + 1]
            IN  /\ embeddings' = [embeddings EXCEPT ![m] = applyCache(@, wordPos)]
                /\ models' = models
                /\ activeModelIndex' = index
                /\ highlightedWords' = highlightedAfterSelect(highlightedWords, Vocabulary(m))
                /\ error' = NoError
                /\ UNCHANGED <<wordPos, wordMeanings, savedParagraphs,
                               activeParagraphId, expandedParagraphId, paragraphIds>>
                /\ useEffectFetchData(TRUE, fetches, {})


\* ----------------------------------------------------------- single word
\* What can be typed into the search box.
SearchInputs == {<<"a">>, <<" ", "B">>, <<"z">>, <<" ">>}

searchFailure_noDuplicateCheck(word, active, vocabulary, words) ==
    IF active = -1 THEN "NoActiveModel"
    ELSE IF word \notin vocabulary THEN "WordNotFound"
    ELSE NoError

\* The check of lines 638-652 that handleSearch stops at, "" when it goes on.
searchFailure(word, active, vocabulary, words) ==
    IF active = -1 THEN "NoActiveModel"
    ELSE IF word \notin vocabulary THEN "WordNotFound"
    ELSE IF Includes(words, word) THEN "AlreadyHighlighted"
    ELSE NoError

\* Whether line 657 goes to the dictionary.
searchNeedsLookup(word, cache) == word \notin DOMAIN cache

\* handleSearch up to its await (lines 634-659), or to its end when the
\* part of speech is cached.
handleSearch(input) ==
    LET word == toLowerCase(trim(input))
        vocabulary == IF activeModelIndex = -1 THEN {}
                      ELSE Vocabulary(models[activeModelIndex + 1])
        failure == searchFailure(word, activeModelIndex, vocabulary, highlightedWords)
    IN  /\ UserOperation
        /\ word # <<>>
        /\ IF failure # NoError
           THEN /\ error' = failure
                /\ UNCHANGED <<store, view, isLoading, loads, searches, submissions>>
                /\ useEffectFetchData(FALSE, fetches, {})
           ELSE IF searchNeedsLookup(word, wordPos)
           THEN /\ searches' = searches (+) SetToBag({[word |-> word,
                                   snapModels |-> models,
                                   snapActive |-> activeModelIndex]})
                /\ isLoading' = TRUE
                /\ UNCHANGED <<store, view, error, loads, submissions>>
                /\ useEffectFetchData(FALSE, fetches, {word})
           ELSE /\ highlightedWords' = Append(highlightedWords, word)
                /\ error' = NoError
                /\ isLoading' = FALSE
                /\ UNCHANGED <<store, savedParagraphs, activeParagraphId,
                               expandedParagraphId, paragraphIds,
                               loads, searches, submissions>>
                /\ useEffectFetchData(TRUE, fetches, {})

\* setModels(updatedModels), updatedModels being a copy of the closed-over list.
modelsAfterLookup(snapModels, current) == snapModels

\* handleSearch after its await (lines 659-684), the lookup answering r.
searchResolved(t, r) ==
    LET pos == getWordPosDirectly(r)
        m == t.snapModels[t.snapActive + 1]
    IN  /\ Continuation
        /\ BagIn(t, searches)
        /\ searches' = searches (-) SetToBag({t})
        /\ wordMeanings' = IF r.kind = "data" THEN wordMeanings \cup {t.word}
                           ELSE wordMeanings
        /\ wordPos' = Put(wordPos, t.word, pos)
        /\ embeddings' = SetPos(embeddings, m, t.word, pos)
        /\ models' = modelsAfterLookup(t.snapModels, models)
        /\ highlightedWords' = Append(highlightedWords, t.word)
        /\ error' = NoError
        /\ isLoading' = FALSE
        /\ UNCHANGED <<activeModelIndex, savedParagraphs, activeParagraphId,
                       expandedParagraphId, paragraphIds, loads, submissions>>
        /\ useEffectFetchData(TRUE, fetches, {})

\* removeWord (lines 907-910); any word may be asked for.
AllWords == {<<"a">>, <<"b">>}

RECURSIVE withoutWord_first(_, _)
withoutWord_first(words, wordToRemove) ==
    IF words = <<>> THEN <<>>
    ELSE IF Head(words) = wordToRemove THEN Tail(words)
    ELSE <<Head(words)>> \o withoutWord_first(Tail(words), wordToRemove)

\* highlightedWords.filter(word => word !== wordToRemove)
withoutWord(words, wordToRemove) == SelectSeq(words, LAMBDA w : w # wordToRemove)

removeWord(wordToRemove) ==
    /\ UserOperation
    /\ highlightedWords' = withoutWord(highlightedWords, wordToRemove)
    /\ UNCHANGED <<store, savedParagraphs, activeParagraphId, expandedParagraphId,
                   paragraphIds, isLoading, error, loads, searches, submissions>>
    /\ useEffectFetchData(TRUE, fetches, {})

\* Clear All Words (line 1498); the button is disabled on an empty list.
clearAllWords ==
    /\ UserOperation
    /\ highlightedWords # <<>>
    /\ highlightedWords' = <<>>
    /\ UNCHANGED <<store, savedParagraphs, activeParagraphId, expandedParagraphId,
                   paragraphIds, isLoading, error, loads, searches, submissions>>
    /\ useEffectFetchData(TRUE, fetches, {})

\* ------------------------------------------------- the effect's fetches
\* fetchWordData after its await (lines 702-736) for the head of t.todo, then
\* fetchData on to its next lookup (lines 746-753).
fetchResolved(t, r) ==
    LET word == Head(t.todo)
        pos == normalizedPos(r.partOfSpeech)
        rest == Tail(t.todo)
        running == (fetches (-) SetToBag({t}))
                     (+) (IF rest = <<>> THEN EmptyBag
                          ELSE SetToBag({[t EXCEPT !.todo = rest]}))
        lookups == IF rest = <<>> THEN {} ELSE {Head(rest)}
    IN  /\ Continuation
        /\ BagIn(t, fetches)
        /\ CASE r.kind = "data" ->
                  /\ wordMeanings' = wordMeanings \cup {word}
                  /\ wordPos' = Put(wordPos, word, pos)
                  /\ IF /\ t.snapActive # -1
                        /\ word \in Vocabulary(t.snapModels[t.snapActive + 1])
                     THEN /\ embeddings' = SetPos(embeddings,
                                 t.snapModels[t.snapActive + 1], word, pos)
                          /\ models' = modelsAfterLookup(t.snapModels, models)
                     ELSE UNCHANGED <<embeddings, models>>
             [] r.kind = "absent" ->
                  UNCHANGED <<wordMeanings, wordPos, embeddings, models>>
             [] r.kind = "error" ->
                  /\ wordPos' = Put(wordPos, word, "unknown")
                  /\ UNCHANGED <<wordMeanings, embeddings, models>>
        /\ UNCHANGED <<activeModelIndex, view, isLoading, error,
                       loads, searches, submissions>>
        /\ useEffectFetchData(r.kind # "absent", running, lookups)


\* ------------------------------------------------------------ paragraphs
batchSize == 25

Min(a, b) == IF a < b THEN a ELSE b

batchAt_all(found, i) == SubSeq(found, i + 1, Len(found))

\* foundWords.slice(i, i + batchSize)
batchAt(found, i) == SubSeq(found, i + 1, Min(i + batchSize, Len(found)))

\* The words of a batch whose promise goes to the dictionary (lines 1197-1211),
\* highlightedWords and wordPos being the closed-over ones.
batchLookups(batch, snapHighlighted, snapWordPos) ==
    {batch[k] : k \in {j \in 1..Len(batch) :
                          /\ ~Includes(snapHighlighted, batch[j])
                          /\ batch[j] \notin DOMAIN snapWordPos}}

batchResults_reversed(batch, snapHighlighted) ==
    LET kept == SelectSeq(batch, LAMBDA w : ~Includes(snapHighlighted, w))
    IN  [k \in 1..Len(kept) |-> kept[Len(kept) + 1 - k]]

\* batchResults.filter(word => word !== null): Promise.all keeps batch order.
batchResults(batch, snapHighlighted) ==
    SelectSeq(batch, LAMBDA w : ~Includes(snapHighlighted, w))

batchDone_waits(t) ==
    [t EXCEPT !.wordsToAdd = @ \o batchResults(batchAt(t.found, t.i), t.snapHighlighted),
              !.pending = {},
              !.phase = "lookup"]

\* Lines 1257-1264 once every promise of the batch has resolved.
batchDone(t) ==
    [t EXCEPT !.wordsToAdd = @ \o batchResults(batchAt(t.found, t.i), t.snapHighlighted),
              !.pending = {},
              !.phase = IF t.i + batchSize < Len(t.found) THEN "delay" ELSE "commit"]

\* One iteration of the loop of line 1191, up to where it next waits.
runBatch(t) ==
    LET lookups == batchLookups(batchAt(t.found, t.i), t.snapHighlighted, t.snapWordPos)
    IN  IF lookups # {}
        THEN [t EXCEPT !.pending = lookups, !.phase = "lookup"]
        ELSE batchDone(t)

\* [...highlightedWords, ...wordsToAdd] (line 1269), highlightedWords being
\* the closed-over list.
newHighlightedWords(snapHighlighted, current, wordsToAdd) == snapHighlighted \o wordsToAdd

\* Lines 1266-1301.
commitParagraph(t) ==
    /\ IF t.wordsToAdd # <<>>
       THEN /\ paragraphIds' = paragraphIds + 1
            /\ savedParagraphs' = Append(savedParagraphs,
                   [id |-> paragraphIds + 1, text |-> t.text, words |-> t.wordsToAdd])
            /\ highlightedWords' =
                   newHighlightedWords(t.snapHighlighted, highlightedWords, t.wordsToAdd)
            /\ error' = NoError
       ELSE /\ error' = "NoNewWords"
            /\ UNCHANGED <<paragraphIds, savedParagraphs, highlightedWords>>
    /\ isLoading' = FALSE

\* handleParagraphSubmit (lines 1142-1177) and processParagraphWords up to
\* where it first waits.
handleParagraphSubmit(text) ==
    LET paragraphText == trim(text)
        vocabulary == IF activeModelIndex = -1 THEN {}
                      ELSE Vocabulary(models[activeModelIndex + 1])
        found == foundWords(paragraphText, vocabulary)
        t == runBatch([text |-> paragraphText, found |-> found,
                       snapModels |-> models, snapActive |-> activeModelIndex,
                       snapHighlighted |-> highlightedWords, snapWordPos |-> wordPos,
                       i |-> 0, pending |-> {}, wordsToAdd |-> <<>>, phase |-> "start"])
    IN  /\ UserOperation
        /\ paragraphText # <<>>
        /\ UNCHANGED <<store, activeParagraphId, expandedParagraphId, loads, searches>>
        /\ IF activeModelIndex = -1
           THEN /\ error' = "NoActiveModel"
                /\ UNCHANGED <<highlightedWords, savedParagraphs, paragraphIds,
                               isLoading, submissions>>
                /\ useEffectFetchData(FALSE, fetches, {})
           ELSE IF found = <<>>
           THEN /\ error' = "NoMatch"
                /\ isLoading' = FALSE
                /\ UNCHANGED <<highlightedWords, savedParagraphs, paragraphIds, submissions>>
                /\ useEffectFetchData(FALSE, fetches, {})
           ELSE /\ IF t.phase = "commit"
                   THEN /\ commitParagraph(t)
                        /\ UNCHANGED submissions
                        /\ useEffectFetchData(t.wordsToAdd # <<>>, fetches, {})
                   ELSE /\ submissions' = submissions (+) SetToBag({t})
                        /\ isLoading' = TRUE
                        /\ error' = NoError
                        /\ UNCHANGED <<highlightedWords, savedParagraphs, paragraphIds>>
                        /\ useEffectFetchData(FALSE, fetches, t.pending)

\* One promise of the batch after its await (lines 1211-1233), the lookup for
\* word answering r; with it the last of the batch, lines 1257-1301 follow.
paragraphLookupResolved(t, word, r) ==
    LET pos == getWordPosDirectly(r)
        m == t.snapModels[t.snapActive + 1]
        left == [t EXCEPT !.pending = @ \ {word}]
        next == IF left.pending = {} THEN batchDone(left) ELSE left
    IN  /\ Continuation
        /\ BagIn(t, submissions)
        /\ t.phase = "lookup"
        /\ word \in t.pending
        /\ wordMeanings' = IF r.kind = "data" THEN wordMeanings \cup {word}
                           ELSE wordMeanings
        /\ wordPos' = Put(wordPos, word, pos)
        /\ embeddings' = SetPos(embeddings, m, word, pos)
        /\ models' = modelsAfterLookup(t.snapModels, models)
        /\ UNCHANGED <<activeModelIndex, activeParagraphId, expandedParagraphId,
                       loads, searches>>
        /\ IF next.phase = "commit"
           THEN /\ submissions' = submissions (-) SetToBag({t})
                /\ commitParagraph(next)
           ELSE /\ submissions' = (submissions (-) SetToBag({t})) (+) SetToBag({next})
                /\ UNCHANGED <<highlightedWords, savedParagraphs, paragraphIds,
                               isLoading, error>>
        /\ useEffectFetchData(TRUE, fetches, {})

\* The wait of line 1262 over: the next batch starts.
paragraphDelayOver(t) ==
    LET next == runBatch([t EXCEPT !.i = @ + batchSize])
    IN  /\ Continuation
        /\ BagIn(t, submissions)
        /\ t.phase = "delay"
        /\ UNCHANGED <<store, activeParagraphId, expandedParagraphId, loads, searches>>
        /\ IF next.phase = "commit"
           THEN /\ submissions' = submissions (-) SetToBag({t})
                /\ commitParagraph(next)
                /\ useEffectFetchData(next.wordsToAdd # <<>>, fetches, {})
           ELSE /\ submissions' = (submissions (-) SetToBag({t})) (+) SetToBag({next})
                /\ UNCHANGED <<highlightedWords, savedParagraphs, paragraphIds,
                               isLoading, error>>
                /\ useEffectFetchData(FALSE, fetches, next.pending)

toggledSelection_set(selected, paragraphId) == paragraphId

\* Lines 914-920 and 925-929: null when the id is the selection, else the id.
toggledSelection(selected, paragraphId) ==
    IF selected = paragraphId THEN 0 ELSE paragraphId

\* toggleActiveParagraph (lines 913-921).
toggleActiveParagraph(paragraphId) ==
    /\ UserOperation
    /\ \E k \in 1..Len(savedParagraphs) : savedParagraphs[k].id = paragraphId
    /\ activeParagraphId' = toggledSelection(activeParagraphId, paragraphId)
    /\ UNCHANGED <<store, highlightedWords, savedParagraphs, expandedParagraphId,
                   paragraphIds, isLoading, error, loads, searches, submissions>>
    /\ useEffectFetchData(FALSE, fetches, {})

\* toggleExpandParagraph (lines 924-930).
toggleExpandParagraph(paragraphId) ==
    /\ UserOperation
    /\ \E k \in 1..Len(savedParagraphs) : savedParagraphs[k].id = paragraphId
    /\ expandedParagraphId' = toggledSelection(expandedParagraphId, paragraphId)
    /\ UNCHANGED <<store, highlightedWords, savedParagraphs, activeParagraphId,
                   paragraphIds, isLoading, error, loads, searches, submissions>>
    /\ useEffectFetchData(FALSE, fetches, {})

withoutWords_none(words, removed) == words

\* prev.filter(word => !paragraphToRemove.words.includes(word)) (lines 940-942)
withoutWords(words, removed) == SelectSeq(words, LAMBDA w : ~Includes(removed, w))

selectionAfterRemove_keep(selected, paragraphId) == selected

\* Lines 948-955, for the active and for the expanded paragraph.
selectionAfterRemove(selected, paragraphId) ==
    IF selected = paragraphId THEN 0 ELSE selected

\* removeParagraph (lines 933-956).
removeParagraph(paragraphId) ==
    /\ UserOperation
    /\ \E k \in 1..Len(savedParagraphs) :
          /\ savedParagraphs[k].id = paragraphId
          /\ highlightedWords' = withoutWords(highlightedWords, savedParagraphs[k].words)
    /\ savedParagraphs' = SelectSeq(savedParagraphs, LAMBDA p : p.id # paragraphId)
    /\ activeParagraphId' = selectionAfterRemove(activeParagraphId, paragraphId)
    /\ expandedParagraphId' = selectionAfterRemove(expandedParagraphId, paragraphId)
    /\ UNCHANGED <<store, paragraphIds, isLoading, error, loads, searches, submissions>>
    /\ useEffectFetchData(TRUE, fetches, {})

\* ------------------------------------------------------- specification
Next ==
    \/ \E f \in 1..Len(Files) : handleFileUpload(f)
    \/ \E t \in BagToSet(loads) : parseComplete(t)
    \/ \E t \in BagToSet(loads) : parseError(t)
    \/ \E i \in 0..(Len(models) - 1) : removeModel(i)
    \/ \E i \in 0..(Len(models) - 1) : selectModel(i)
    \/ \E input \in SearchInputs : handleSearch(input)
    \/ \E t \in BagToSet(searches), r \in Responses : searchResolved(t, r)
    \/ \E w \in AllWords : removeWord(w)
    \/ clearAllWords
    \/ \E t \in BagToSet(fetches), r \in Responses : fetchResolved(t, r)
    \/ \E text \in Texts : handleParagraphSubmit(text)
    \/ \E t \in BagToSet(submissions), r \in Responses :
          \E w \in t.pending : paragraphLookupResolved(t, w, r)
    \/ \E k \in 1..Len(savedParagraphs) : toggleActiveParagraph(savedParagraphs[k].id)
    \/ \E k \in 1..Len(savedParagraphs) : toggleExpandParagraph(savedParagraphs[k].id)
    \/ \E k \in 1..Len(savedParagraphs) : removeParagraph(savedParagraphs[k].id)

Spec == Init /\ [][Next]_vars


\* ================================================================ claims
ActiveModel == models[activeModelIndex + 1]

Idle == InFlight = 0

\* A user operation can still be made and its effect can start a fetch.
CanOperate == Mounted /\ operations < MaxOperations /\ Idle

Highlighted == {highlightedWords[k] : k \in 1..Len(highlightedWords)}

RECURSIVE Restrict(_, _)
Restrict(seq, S) ==
    IF seq = <<>> THEN <<>>
    ELSE IF Head(seq) \in S THEN <<Head(seq)>> \o Restrict(Tail(seq), S)
    ELSE Restrict(Tail(seq), S)

\* C1: whenever a model is active, every highlighted word is a key of the
\* active model's embeddings.
C1_HighlightedInActiveModel ==
    InRange(models, activeModelIndex) => Highlighted \subseteq Vocabulary(ActiveModel)

\* C2: the step that creates a model appends it to the current model list and
\* leaves exactly that model active.
C2_LoadAppendsAndActivates ==
    [][Len(embeddings') > Len(embeddings) =>
          /\ models' = Append(models, Len(embeddings'))
          /\ InRange(models', activeModelIndex')
          /\ models'[activeModelIndex' + 1] = Len(embeddings')]_vars

\* C3: removing the active model leaves no model active and the highlight set
\* empty.
C3_RemoveActiveModel ==
    [][\A i \in 0..(Len(models) - 1) :
          (removeModel(i) /\ i = activeModelIndex) =>
              /\ activeModelIndex' = -1
              /\ highlightedWords' = <<>>
              /\ models' = withoutIndex(models, i)]_vars

C3_Witness ==
    /\ CanOperate
    /\ activeModelIndex = 0
    /\ Len(models) = 1
    /\ highlightedWords # <<>>

\* C4: removing a model that is not the active one keeps the same model
\* active (its index one less when the removed one came before it) and keeps
\* the highlight set.
C4_RemoveOtherModel ==
    [][\A i \in 0..(Len(models) - 1) :
          (removeModel(i) /\ i # activeModelIndex) =>
              /\ highlightedWords' = highlightedWords
              /\ activeModelIndex = -1 => activeModelIndex' = -1
              /\ activeModelIndex # -1 =>
                    /\ activeModelIndex' =
                          IF i < activeModelIndex THEN activeModelIndex - 1
                          ELSE activeModelIndex
                    /\ InRange(models', activeModelIndex')
                    /\ models'[activeModelIndex' + 1] = ActiveModel]_vars

C4_Witness ==
    /\ CanOperate
    /\ Len(models) = 2
    /\ activeModelIndex = 1
    /\ highlightedWords # <<>>

\* C5: after selectModel(j) on a model that was not active, every word of
\* model j with a cache entry carries the cached part of speech.
C5_SelectAppliesCache ==
    [][\A j \in 0..(Len(models) - 1) :
          (selectModel(j) /\ j # activeModelIndex) =>
              \A w \in Vocabulary(models[j + 1]) \cap DOMAIN wordPos :
                  embeddings'[models'[j + 1]][w] = wordPos'[w]]_vars

\* A model that is not active holds a word tagged otherwise than the cache has it.
C5_Witness ==
    /\ CanOperate
    /\ \E j \in 0..(Len(models) - 1) :
          /\ j # activeModelIndex
          /\ \E w \in Vocabulary(models[j + 1]) \cap DOMAIN wordPos :
                /\ embeddings[models[j + 1]][w] # NoPos
                /\ embeddings[models[j + 1]][w] # wordPos[w]

\* C6: selectModel(j) on a model that was not active leaves the highlighted
\* words that model j has, in their order; on the active index it changes
\* nothing.
C6_SelectFiltersHighlights ==
    [][\A j \in 0..(Len(models) - 1) :
          selectModel(j) =>
              IF j = activeModelIndex
              THEN UNCHANGED <<store, view, tasks, isLoading, error>>
              ELSE /\ highlightedWords' =
                         Restrict(highlightedWords, Vocabulary(models[j + 1]))
                   /\ activeModelIndex' = j]_vars

\* A model that is not active lacks one highlighted word and has another.
C6_Witness ==
    /\ CanOperate
    /\ \E j \in 0..(Len(models) - 1) :
          /\ j # activeModelIndex
          /\ Highlighted \ Vocabulary(models[j + 1]) # {}
          /\ Highlighted \cap Vocabulary(models[j + 1]) # {}


SearchWord(input) == toLowerCase(trim(input))

\* C7: addWord reports NoActiveModel, else WordNotFound, else
\* AlreadyHighlighted, and only otherwise appends the word - at once, or when
\* its lookup resolves; a call for a word that an earlier call added reports
\* AlreadyHighlighted and leaves the highlight set as it is.
C7_AddWordChecks ==
    [][/\ \A input \in SearchInputs :
             handleSearch(input) =>
                 IF activeModelIndex = -1
                 THEN error' = "NoActiveModel" /\ highlightedWords' = highlightedWords
                 ELSE IF SearchWord(input) \notin Vocabulary(ActiveModel)
                 THEN error' = "WordNotFound" /\ highlightedWords' = highlightedWords
                 ELSE IF SearchWord(input) \in Highlighted
                 THEN error' = "AlreadyHighlighted" /\ highlightedWords' = highlightedWords
                 ELSE \/ highlightedWords' = Append(highlightedWords, SearchWord(input))
                      \/ /\ highlightedWords' = highlightedWords
                         /\ \E t \in BagToSet(searches') :
                               /\ t.word = SearchWord(input)
                               /\ CopiesIn(t, searches') = CopiesIn(t, searches) + 1
       /\ \A t \in BagToSet(searches), r \in Responses :
             searchResolved(t, r) => highlightedWords' = Append(highlightedWords, t.word)]_vars

\* A second call for a word of the active model that a call added was refused.
C7_Witness ==
    /\ error = "AlreadyHighlighted"
    /\ InRange(models, activeModelIndex)
    /\ Highlighted \cap Vocabulary(ActiveModel) # {}

ProgramState ==
    <<models, embeddings, activeModelIndex, wordPos, wordMeanings,
      highlightedWords, savedParagraphs>>

SearchFails(input) ==
    \/ activeModelIndex = -1
    \/ SearchWord(input) \notin Vocabulary(ActiveModel)
    \/ SearchWord(input) \in Highlighted

SubmitFails(text) ==
    \/ activeModelIndex = -1
    \/ foundWords(trim(text), Vocabulary(ActiveModel)) = <<>>

\* C8: a reported failure (EmptyModel, NoActiveModel, WordNotFound,
\* AlreadyHighlighted, NoMatch) leaves the models, the active index, the
\* caches, the highlight set and the paragraphs as they were, starts nothing
\* and issues no lookup; a file without a valid row adds no model.
C8_FailuresChangeNothing ==
    [][/\ \A input \in SearchInputs :
             (handleSearch(input) /\ SearchFails(input)) =>
                 /\ UNCHANGED <<ProgramState, tasks>>
                 /\ issued' = {}
                 /\ error' \in {"NoActiveModel", "WordNotFound", "AlreadyHighlighted"}
       /\ \A text \in Texts :
             (handleParagraphSubmit(text) /\ SubmitFails(text)) =>
                 /\ UNCHANGED <<ProgramState, tasks>>
                 /\ issued' = {}
                 /\ error' \in {"NoActiveModel", "NoMatch"}
       /\ \A t \in BagToSet(loads) :
             (parseComplete(t) /\ ValidRows(Files[t.file]) = {}) =>
                 /\ UNCHANGED <<ProgramState, searches, submissions, fetches>>
                 /\ issued' = {}
                 /\ error' = "EmptyModel"]_vars

\* A file without a valid row was reported with a model loaded and a word
\* highlighted.
C8_Witness ==
    /\ error = "EmptyModel"
    /\ models # <<>>
    /\ highlightedWords # <<>>
    /\ DOMAIN wordPos # {}

\* C9: a lookup that resolves leaves a cache entry for its word, and no step
\* removes a cache entry.
C9_CacheMonotone ==
    [][/\ DOMAIN wordPos \subseteq DOMAIN wordPos'
       /\ \A t \in BagToSet(searches), r \in Responses :
             searchResolved(t, r) => t.word \in DOMAIN wordPos'
       /\ \A t \in BagToSet(submissions), r \in Responses :
             \A w \in t.pending :
                 paragraphLookupResolved(t, w, r) => w \in DOMAIN wordPos'
       /\ \A t \in BagToSet(fetches), r \in Responses :
             fetchResolved(t, r) => Head(t.todo) \in DOMAIN wordPos']_vars

\* A lookup is in flight for a word the cache holds, with another word cached.
C9_Witness ==
    /\ \E t \in BagToSet(fetches) : Head(t.todo) \in DOMAIN wordPos
    /\ Cardinality(DOMAIN wordPos) >= 2

\* C10: no lookup is issued for a word that has a part-of-speech cache entry
\* when it is issued.
C10_NoLookupForCachedWord == issued \cap DOMAIN wordPos = {}

\* The state after a lookup for w has resolved: the cache has w, and the
\* embedding of w in the model that is then active carries the cached tag.
ResolvedConsistent(w) ==
    /\ w \in DOMAIN wordPos'
    /\ (/\ InRange(models', activeModelIndex')
        /\ w \in DOMAIN embeddings'[models'[activeModelIndex' + 1]])
          => embeddings'[models'[activeModelIndex' + 1]][w] = wordPos'[w]

\* C11: when a lookup for a word resolves - for a single-word add, for a
\* paragraph batch or for the automatic fetch - the cache holds the result
\* and the embedding of the word in the model active at that moment carries
\* the same tag, whatever happened to the models while it was in flight.
C11_ResolvedTagOnActiveModel ==
    [][/\ \A t \in BagToSet(searches), r \in Responses :
             searchResolved(t, r) =>
                 /\ ResolvedConsistent(t.word)
                 /\ wordPos'[t.word] = getWordPosDirectly(r)
       /\ \A t \in BagToSet(submissions), r \in Responses :
             \A w \in t.pending :
                 paragraphLookupResolved(t, w, r) =>
                     /\ ResolvedConsistent(w)
                     /\ wordPos'[w] = getWordPosDirectly(r)
       /\ \A t \in BagToSet(fetches), r \in Responses :
             fetchResolved(t, r) => ResolvedConsistent(Head(t.todo))]_vars

\* The step took a submission out of flight, that is, reached lines 1266-1301.
Committed == BagCardinality(submissions') < BagCardinality(submissions)

C13_TagWrittenOnce ==
    [][\A m \in 1..Len(embeddings) :
          \A w \in DOMAIN embeddings[m] :
              embeddings[m][w] # NoPos => embeddings'[m][w] = embeddings[m][w]]_vars

Tags == {embeddings[m][w] : <<m, w>> \in
            UNION {{<<m, w>> : w \in DOMAIN embeddings[m]} : m \in 1..Len(embeddings)}}

\* C14: every value of the part-of-speech cache and every tag that an
\* embedding carries is one of noun, verb, adjective, adverb, unknown, and a
\* lookup answered with any other part of speech stores unknown.
C14_ClosedTaxonomy ==
    /\ [](/\ \A w \in DOMAIN wordPos : wordPos[w] \in Taxonomy
          /\ Tags \subseteq Taxonomy \cup {NoPos})
    /\ [][/\ \A t \in BagToSet(searches), r \in Responses :
                (searchResolved(t, r) /\ r.kind = "data"
                    /\ r.partOfSpeech \notin {"noun", "verb", "adjective", "adverb"})
                  => wordPos'[t.word] = "unknown"
          /\ \A t \in BagToSet(submissions), r \in Responses :
                \A w \in t.pending :
                    (paragraphLookupResolved(t, w, r) /\ r.kind = "data"
                        /\ r.partOfSpeech \notin {"noun", "verb", "adjective", "adverb"})
                      => wordPos'[w] = "unknown"
          /\ \A t \in BagToSet(fetches), r \in Responses :
                (fetchResolved(t, r) /\ r.kind = "data"
                    /\ r.partOfSpeech \notin {"noun", "verb", "adjective", "adverb"})
                  => wordPos'[Head(t.todo)] = "unknown"]_vars

\* A word was answered with an entry (it has a definition) whose part of
\* speech is outside the four, and its embedding in the active model is tagged.
C14_Witness ==
    /\ InRange(models, activeModelIndex)
    /\ \E w \in DOMAIN wordPos \cap wordMeanings :
          /\ wordPos[w] = "unknown"
          /\ w \in Vocabulary(ActiveModel)
          /\ embeddings[ActiveModel][w] = "unknown"

\* ------------------------------------------- extraction over every text
\* A file whose model has a key with a digit in it.
ExtractFile ==
    << << <<"1">>, <<"1">>, <<"a">> >>,
       << <<"1">>, <<"2">>, <<"B">> >>,
       << <<"2">>, <<"2">>, <<"b", "2">> >> >>

ExtractAlphabet == {"a", "B", "2", " ", ","}

\* What can be pasted into the paragraph box.
ExtractTexts == UNION {[1..n -> ExtractAlphabet] : n \in 1..MaxLen}

\* The page after ExtractFile was loaded and its model selected again until
\* one operation is left.
InitExtract ==
    /\ models = <<1>>
    /\ embeddings = <<embeddingsMap(ExtractFile, [w \in {} |-> NoPos])>>
    /\ activeModelIndex = 0
    /\ highlightedWords = <<>>
    /\ wordPos = [w \in {} |-> NoPos]
    /\ wordMeanings = {}
    /\ savedParagraphs = <<>>
    /\ activeParagraphId = 0
    /\ expandedParagraphId = 0
    /\ isLoading = FALSE
    /\ error = NoError
    /\ loads = EmptyBag
    /\ searches = EmptyBag
    /\ submissions = EmptyBag
    /\ fetches = EmptyBag
    /\ paragraphIds = 0
    /\ issued = {}
    /\ operations = MaxOperations - 1
    /\ maxInFlight = MaxTasks

NextExtract ==
    \/ \E text \in ExtractTexts : handleParagraphSubmit(text)
    \/ \E t \in BagToSet(submissions), r \in Responses :
          \E w \in t.pending : paragraphLookupResolved(t, w, r)

SpecExtract == InitExtract /\ [][NextExtract]_vars

\* w stands in s at position i as a whole token: a run of word characters
\* with no word character before or after it.
WordCharacters == Lower \cup Upper \cup Digits \cup {"_"}

IsTokenAt(s, i, w) ==
    /\ w # <<>>
    /\ i >= 1
    /\ i + Len(w) - 1 <= Len(s)
    /\ SubSeq(s, i, i + Len(w) - 1) = w
    /\ \A k \in 1..Len(w) : w[k] \in WordCharacters \ {"_"}
    /\ i = 1 \/ s[i - 1] \notin WordCharacters \ {"_"}
    /\ i + Len(w) > Len(s) \/ s[i + Len(w)] \notin WordCharacters \ {"_"}

Tokens(s) ==
    {SubSeq(s, i, j) : <<i, j>> \in
        {p \in (1..Len(s)) \X (1..Len(s)) :
            p[1] <= p[2] /\ IsTokenAt(s, p[1], SubSeq(s, p[1], p[2]))}}

FirstAt(s, w) == CHOOSE i \in 1..Len(s) :
    IsTokenAt(s, i, w) /\ \A j \in 1..(i - 1) : ~IsTokenAt(s, j, w)

\* found is the candidate list of text for a model with the given keys.
Candidates(text, found, vocabulary) ==
    LET s == toLowerCase(text)
        wanted == {w \in Tokens(s) :
                      w \in vocabulary /\ \A k \in 1..Len(w) : w[k] \notin Digits}
    IN  /\ \A j, k \in 1..Len(found) : j < k => found[j] # found[k]
        /\ {found[k] : k \in 1..Len(found)} = wanted
        /\ \A j, k \in 1..Len(found) :
              j < k => FirstAt(s, found[j]) < FirstAt(s, found[k])

\* C15: the candidate list of a paragraph holds each word once, in the order
\* of first occurrence in the text, and holds exactly the lower-cased tokens
\* of the text that are keys of the active model and have no digit; a token
\* with a digit is dropped whole.  A submission in flight carries its text
\* and its candidate list; a text that a submission would fail on has no
\* candidate.
C15_CandidateList ==
    /\ [][\A t \in BagToSet(submissions') :
             ~BagIn(t, submissions) =>
                 Candidates(t.text, t.found, Vocabulary(t.snapModels[t.snapActive + 1]))]_vars
    /\ []((Mounted /\ operations < MaxOperations /\ activeModelIndex # -1) =>
             \A text \in ExtractTexts :
                 SubmitFails(text) => Candidates(text, <<>>, Vocabulary(ActiveModel)))

\* "B2 a" was submitted: b2 is a key of the model, and only a is a candidate.
C15_Witness ==
    \E t \in BagToSet(submissions) :
        /\ t.text = <<"B", "2", " ", "a">>
        /\ t.found = << <<"a">> >>
        /\ <<"b", "2">> \in Vocabulary(ActiveModel)

\* ------------------------------------------- a paragraph of three batches
Letters == <<"a", "b", "c", "x", "z">>

\* Distinct three-letter words, as many as make two full batches and one more.
BatchWords ==
    [k \in 1..(2 * batchSize + 1) |->
        <<Letters[((k \div 25) % 5) + 1], Letters[((k \div 5) % 5) + 1],
          Letters[(k % 5) + 1]>>]

BatchFile == [k \in 1..Len(BatchWords) |-> << <<"1">>, <<"1">>, BatchWords[k] >>]

RECURSIVE Join(_)
Join(words) ==
    IF words = <<>> THEN <<>>
    ELSE IF Len(words) = 1 THEN Head(words)
    ELSE Head(words) \o <<" ">> \o Join(Tail(words))

BatchText == Join(BatchWords)

\* The words of BatchWords without a cache entry: two of the first batch, one
\* of the second and the one of the third.
Uncached == {BatchWords[1], BatchWords[2], BatchWords[batchSize + 1],
             BatchWords[2 * batchSize + 1]}

BatchCache ==
    [w \in {BatchWords[k] : k \in 1..Len(BatchWords)} \ Uncached |-> "noun"]

\* The page after BatchFile was loaded with the other words classified in
\* earlier operations, one of them highlighted, and one operation left.
InitBatch ==
    /\ models = <<1>>
    /\ embeddings = <<embeddingsMap(BatchFile, BatchCache)>>
    /\ activeModelIndex = 0
    /\ highlightedWords = <<BatchWords[3]>>
    /\ wordPos = BatchCache
    /\ wordMeanings = DOMAIN BatchCache
    /\ savedParagraphs = <<>>
    /\ activeParagraphId = 0
    /\ expandedParagraphId = 0
    /\ isLoading = FALSE
    /\ error = NoError
    /\ loads = EmptyBag
    /\ searches = EmptyBag
    /\ submissions = EmptyBag
    /\ fetches = EmptyBag
    /\ paragraphIds = 0
    /\ issued = {}
    /\ operations = MaxOperations - 1
    /\ maxInFlight = MaxTasks

NextBatch ==
    \/ handleParagraphSubmit(BatchText)
    \/ \E t \in BagToSet(submissions), r \in Responses :
          \E w \in t.pending : paragraphLookupResolved(t, w, r)
    \/ \E t \in BagToSet(submissions) : paragraphDelayOver(t)
    \/ \E t \in BagToSet(fetches), r \in Responses : fetchResolved(t, r)

SpecBatch == InitBatch /\ [][NextBatch]_vars

\* The candidates of submission t at positions from..to.
Slice(t, from, to) == {t.found[k] : k \in from..Min(to, Len(t.found))}

\* C16: a submission works through its candidates in consecutive batches of
\* at most 25, in candidate order: the lookups in flight are for words of the
\* current batch only, every word of an earlier batch has its cache entry
\* written, the next batch starts only from the delay that follows a batch,
\* and no delay follows the last batch.
C16_BatchesInOrder ==
    /\ [](\A t \in BagToSet(submissions) :
             /\ t.i % batchSize = 0
             /\ t.pending \subseteq Slice(t, t.i + 1, t.i + batchSize)
             /\ Cardinality(t.pending) <= 25
             /\ \A w \in Slice(t, 1, t.i) :
                   Includes(t.snapHighlighted, w) \/ w \in DOMAIN wordPos
             /\ t.phase = "lookup" => issued \cap Slice(t, t.i + batchSize + 1, Len(t.found)) = {}
             /\ t.phase = "delay" => t.pending = {} /\ t.i + batchSize < Len(t.found)
             /\ t.phase \in {"lookup", "delay"})
    /\ [][\A t \in BagToSet(submissions), u \in BagToSet(submissions') :
             (u.text = t.text /\ u.i # t.i) =>
                 /\ t.phase = "delay"
                 /\ u.i = t.i + batchSize
                 /\ paragraphDelayOver(t)]_vars

\* The third batch is in flight: its lookup was issued after two delays.
C16_Witness ==
    \E t \in BagToSet(submissions) :
        /\ t.i = 2 * batchSize
        /\ t.phase = "lookup"
        /\ t.pending = {BatchWords[2 * batchSize + 1]}
        /\ Len(t.found) = 2 * batchSize + 1

\* ------------------------------------------------ two awaits in flight
\* The page after File1 was loaded and its model selected again until two
\* operations are left, in a run that lets one more await be in flight.
InitOverlap ==
    /\ models = <<1>>
    /\ embeddings = <<embeddingsMap(File1, [w \in {} |-> NoPos])>>
    /\ activeModelIndex = 0
    /\ highlightedWords = <<>>
    /\ wordPos = [w \in {} |-> NoPos]
    /\ wordMeanings = {}
    /\ savedParagraphs = <<>>
    /\ activeParagraphId = 0
    /\ expandedParagraphId = 0
    /\ isLoading = FALSE
    /\ error = NoError
    /\ loads = EmptyBag
    /\ searches = EmptyBag
    /\ submissions = EmptyBag
    /\ fetches = EmptyBag
    /\ paragraphIds = 0
    /\ issued = {}
    /\ operations = MaxOperations - 2
    /\ maxInFlight = MaxTasks + 1

SpecOverlap == InitOverlap /\ [][Next]_vars

NoDuplicates(seq) == \A j, k \in 1..Len(seq) : j < k => seq[j] # seq[k]

\* A paragraph with this text was recorded and every candidate of the text
\* is highlighted.
Resubmitted(text, found) ==
    /\ \E k \in 1..Len(savedParagraphs) : savedParagraphs[k].text = text
    /\ \A j \in 1..Len(found) : Includes(highlightedWords, found[j])

\* C17: a submission of a paragraph that was submitted just before - its
\* record is there and its candidates are highlighted - adds no word to the
\* highlight set, creates no paragraph record and leaves no word twice in the
\* highlight set.
C17_ResubmissionIdempotent ==
    [][/\ \A t \in BagToSet(submissions) :
             (/\ Resubmitted(t.text, t.found)
              /\ submissions' = submissions (-) SetToBag({t})) =>
                 /\ savedParagraphs' = savedParagraphs
                 /\ highlightedWords' = highlightedWords
                 /\ NoDuplicates(highlightedWords) => NoDuplicates(highlightedWords')
       /\ \A text \in Texts :
             (/\ handleParagraphSubmit(text)
              /\ activeModelIndex # -1
              /\ Resubmitted(trim(text), foundWords(trim(text), Vocabulary(ActiveModel)))) =>
                 /\ savedParagraphs' = savedParagraphs
                 /\ highlightedWords' = highlightedWords]_vars

\* C18: a step that completes a paragraph submission creates a paragraph
\* record exactly when it appends a word to the highlight set, and the words
\* of the record are the words it appended, in order.
C18_RecordIsWhatWasAppended ==
    [][/\ Len(savedParagraphs') > Len(savedParagraphs) =>
             LET record == savedParagraphs'[Len(savedParagraphs')]
             IN  /\ record.words # <<>>
                 /\ highlightedWords' = highlightedWords \o record.words
       /\ (Committed /\ Len(savedParagraphs') = Len(savedParagraphs)) =>
             highlightedWords' = highlightedWords
       /\ \A text \in Texts :
             (handleParagraphSubmit(text) /\ Len(savedParagraphs') = Len(savedParagraphs)) =>
                 highlightedWords' = highlightedWords]_vars

ParagraphIds == {savedParagraphs[k].id : k \in 1..Len(savedParagraphs)}

InitView ==
    /\ models = <<1, 2>>
    /\ embeddings = << [w \in {<<"a">>, <<"b">>} |->
                           IF w = <<"a">> THEN "noun" ELSE "unknown"],
                       embeddingsMap(File2, [w \in {} |-> NoPos]) >>
    /\ activeModelIndex = 0
    /\ highlightedWords = << <<"a">>, <<"a">>, <<"b">> >>
    /\ wordPos = [w \in {<<"a">>, <<"b">>} |->
                     IF w = <<"a">> THEN "noun" ELSE "unknown"]
    /\ wordMeanings = {<<"a">>, <<"b">>}
    /\ savedParagraphs =
          << [id |-> 1, text |-> trim(Text1), words |-> << <<"a">>, <<"b">> >>],
             [id |-> 2, text |-> <<"b">>, words |-> << <<"b">> >>] >>
    /\ activeParagraphId = 0
    /\ expandedParagraphId = 0
    /\ isLoading = FALSE
    /\ error = NoError
    /\ loads = EmptyBag
    /\ searches = EmptyBag
    /\ submissions = EmptyBag
    /\ fetches = EmptyBag
    /\ paragraphIds = 2
    /\ issued = {}
    /\ operations = MaxOperations - 3
    /\ maxInFlight = MaxTasks

NextView ==
    \/ \E i \in 0..(Len(models) - 1) : removeModel(i)
    \/ \E i \in 0..(Len(models) - 1) : selectModel(i)
    \/ \E input \in SearchInputs : handleSearch(input)
    \/ \E w \in AllWords : removeWord(w)
    \/ clearAllWords
    \/ \E k \in 1..Len(savedParagraphs) : toggleActiveParagraph(savedParagraphs[k].id)
    \/ \E k \in 1..Len(savedParagraphs) : toggleExpandParagraph(savedParagraphs[k].id)
    \/ \E k \in 1..Len(savedParagraphs) : removeParagraph(savedParagraphs[k].id)

SpecView == InitView /\ [][NextView]_vars

\* C21: toggleActiveParagraph(id) makes id the active paragraph when it was
\* not (whether none or another paragraph was active) and leaves no paragraph
\* active when it was, so that a second toggle of the same id from no
\* selection gives no selection again; the highlight set, the paragraph
\* records, the expanded paragraph, the models, the active model and the
\* caches stay as they were.
C21_ToggleActiveParagraph ==
    [][\A k \in 1..Len(savedParagraphs) :
          LET id == savedParagraphs[k].id
          IN  toggleActiveParagraph(id) =>
                  /\ activeParagraphId # id => activeParagraphId' = id
                  /\ activeParagraphId = id => activeParagraphId' = 0
                  /\ UNCHANGED <<store, highlightedWords, savedParagraphs,
                                 expandedParagraphId, paragraphIds>>]_vars

\* Of two paragraphs the second was made the active one, and a toggle can follow.
C21_Witness ==
    /\ Mounted
    /\ operations = MaxOperations - 1
    /\ activeParagraphId = 2
    /\ expandedParagraphId = 0
    /\ Len(savedParagraphs) = 2
    /\ highlightedWords = << <<"a">>, <<"a">>, <<"b">> >>

\* ---------------------------------------------------------- derived view
\* The filter of lines 786-790: with a paragraph active, its words only.
inActiveParagraph(word) ==
    IF activeParagraphId = 0 THEN TRUE
    ELSE IF \E k \in 1..Len(savedParagraphs) : savedParagraphs[k].id = activeParagraphId
    THEN LET k == CHOOSE j \in 1..Len(savedParagraphs) :
                     /\ savedParagraphs[j].id = activeParagraphId
                     /\ \A i \in 1..(j - 1) : savedParagraphs[i].id # activeParagraphId
         IN  Includes(savedParagraphs[k].words, word)
    ELSE TRUE

\* visibleEmbeddings (lines 783-793), each embedding named by its key.
visibleEmbeddings ==
    IF activeModelIndex # -1
    THEN SelectSeq(SelectSeq(highlightedWords, inActiveParagraph),
                   LAMBDA w : w \in Vocabulary(models[activeModelIndex + 1]))
    ELSE <<>>

Buckets == {"noun", "verb", "adjective", "adverb", "unknown"}

inBucket_unknownTagOnly(bucket, pos) == pos = bucket

\* The tests of lines 797-801 on e.pos.
inBucket(bucket, pos) ==
    IF bucket = "unknown"
    THEN pos = NoPos \/ (pos # "noun" /\ pos # "verb" /\ pos # "adjective" /\ pos # "adverb")
    ELSE pos = bucket

\* groupedEmbeddings (lines 796-802).
groupedEmbeddings ==
    [bucket \in Buckets |->
        SelectSeq(visibleEmbeddings,
                  LAMBDA w : inBucket(bucket, embeddings[models[activeModelIndex + 1]][w]))]

\* The words of the active paragraph, every word when no paragraph is active.
ActiveParagraphWords ==
    IF activeParagraphId = 0 THEN Highlighted
    ELSE UNION {{p.words[j] : j \in 1..Len(p.words)} :
                   p \in {savedParagraphs[k] : k \in {i \in 1..Len(savedParagraphs) :
                                                        savedParagraphs[i].id = activeParagraphId}}}

\* C22: on every page that renders, the visible embeddings are those of the
\* highlighted words that are keys of the active model and, with a paragraph
\* active, words of that paragraph's record, in highlight order, and none
\* without an active model; the five buckets partition them, an embedding
\* tagged noun, verb, adjective or adverb lying in that bucket and any other,
\* the untagged included, in unknown.
C22_DerivedView ==
    Mounted =>
        /\ activeModelIndex = -1 => visibleEmbeddings = <<>>
        /\ activeModelIndex # -1 =>
              /\ visibleEmbeddings =
                    Restrict(highlightedWords, Vocabulary(ActiveModel) \cap ActiveParagraphWords)
              /\ \A k \in 1..Len(visibleEmbeddings) :
                    LET w == visibleEmbeddings[k]
                        tag == embeddings[ActiveModel][w]
                    IN  /\ Cardinality({b \in Buckets : Includes(groupedEmbeddings[b], w)}) = 1
                        /\ tag \in {"noun", "verb", "adjective", "adverb"}
                              => Includes(groupedEmbeddings[tag], w)
                        /\ tag \notin {"noun", "verb", "adjective", "adverb"}
                              => Includes(groupedEmbeddings["unknown"], w)
              /\ \A b \in Buckets :
                    groupedEmbeddings[b] =
                        Restrict(visibleEmbeddings,
                                 {w \in Vocabulary(ActiveModel) :
                                     Includes(groupedEmbeddings[b], w)})

\* A paragraph is active that lacks a highlighted word of the active model:
\* the view shows less than the highlight set.
C22_Witness ==
    /\ InRange(models, activeModelIndex)
    /\ activeParagraphId # 0
    /\ visibleEmbeddings # <<>>
    /\ Len(visibleEmbeddings) < Len(highlightedWords)
    /\ Highlighted \subseteq Vocabulary(ActiveModel)

\* C23: removeWord(w) leaves the highlight set without any occurrence of w
\* and with every other word where it was in the order; with w not
\* highlighted the set stays as it is and no failure is reported; the models,
\* the active model, the caches, the paragraph records with their words and
\* the paragraph selections are not changed.
C23_RemoveWord ==
    [][\A w \in AllWords :
          removeWord(w) =>
              /\ ~Includes(highlightedWords', w)
              /\ highlightedWords' = Restrict(highlightedWords, Highlighted \ {w})
              /\ w \notin Highlighted => highlightedWords' = highlightedWords
              /\ error' = error
              /\ UNCHANGED <<store, savedParagraphs, activeParagraphId,
                             expandedParagraphId, paragraphIds>>]_vars

\* The word that stood twice in the highlight set was removed in one
\* operation, and the paragraph that lists it still does.
C23_Witness ==
    /\ operations = MaxOperations - 2
    /\ highlightedWords = << <<"b">> >>
    /\ Len(savedParagraphs) = 2
    /\ Includes(savedParagraphs[1].words, <<"a">>)

\* A row that gives no embedding: too short, a coordinate that is no number,
\* or a word that is empty or a single period.
InvalidRow(row) ==
    \/ Len(row) < 3
    \/ NumberIsNaN(trim(stripQuotes(row[1])))
    \/ NumberIsNaN(trim(stripQuotes(row[2])))
    \/ RowWord(row) \in {<<>>, <<".">>}

\* C24: a load that creates a model gives it as many embeddings as the file
\* has rows less the invalid ones, and counts as invalid exactly the rows with
\* an unparseable coordinate or an empty or period-only word.
C24_LoadCounts ==
    [][\A t \in BagToSet(loads) :
          (parseComplete(t) /\ Len(embeddings') > Len(embeddings)) =>
              LET rows == Files[t.file]
                  invalid == Cardinality({i \in 1..Len(rows) : InvalidRow(rows[i])})
              IN  /\ Cardinality(DOMAIN embeddings'[Len(embeddings')]) = Len(rows) - invalid
                  /\ invalidCount(rows) = invalid]_vars

\* The candidates of submission t that its closed-over highlight set lacks,
\* in candidate order.
Added(t) ==
    Restrict(t.found, {t.found[k] : k \in {j \in 1..Len(t.found) :
                                              ~Includes(t.snapHighlighted, t.found[j])}})

\* C25: each lookup of a batch, whenever it completes, writes under its own
\* word only - the cache entry, the definition and the tag of that word - and
\* the submission then appends its new candidates in candidate order to the
\* highlight set and to the record: what a submission leaves is fixed by the
\* answers, whichever lookup of the batch completed first.
C25_MergedByWordKey ==
    [][\A t \in BagToSet(submissions), r \in Responses :
          \A w \in t.pending :
              paragraphLookupResolved(t, w, r) =>
                  /\ wordPos' = [x \in DOMAIN wordPos \cup {w} |->
                                    IF x = w THEN getWordPosDirectly(r) ELSE wordPos[x]]
                  /\ wordMeanings' \ {w} = wordMeanings \ {w}
                  /\ w \in wordMeanings' <=> (w \in wordMeanings \/ r.kind = "data")
                  /\ \A m \in 1..Len(embeddings) :
                        \A x \in DOMAIN embeddings[m] :
                            embeddings'[m][x] # embeddings[m][x] =>
                                x = w /\ embeddings'[m][x] = getWordPosDirectly(r)
                  /\ IF Committed
                     THEN /\ highlightedWords' = t.snapHighlighted \o Added(t)
                          /\ Len(savedParagraphs') = Len(savedParagraphs) + 1
                          /\ savedParagraphs'[Len(savedParagraphs')].words = Added(t)
                          /\ savedParagraphs'[Len(savedParagraphs')].text = t.text
                     ELSE UNCHANGED <<highlightedWords, savedParagraphs>>]_vars

\* Of a batch of two lookups the one for the second candidate has completed
\* and the one for the first is still in flight.
C25_Witness ==
    \E t \in BagToSet(submissions) :
        /\ Len(t.found) = 2
        /\ t.phase = "lookup"
        /\ t.pending = {t.found[1]}
        /\ t.found[1] \notin DOMAIN wordPos
        /\ t.found[2] \in DOMAIN wordPos
        /\ t.found[2] \notin DOMAIN t.snapWordPos

\* C26: while a paragraph submission is in flight no user operation is made:
\* the steps taken before it completes are its own lookups and delays and
\* the completions of other work.
C26_NoOperationDuringSubmission ==
    [][submissions # EmptyBag => operations' = operations]_vars

\* ------------------------------------------------ lookups that resolve
\* Every dictionary lookup of a submission is answered and every delay
\* between batches runs out (fetch at line 1313, setTimeout at line 1262).
LookupsResolve ==
    /\ WF_vars(\E t \in BagToSet(submissions), r \in Responses :
                  \E w \in t.pending : paragraphLookupResolved(t, w, r))
    /\ WF_vars(\E t \in BagToSet(submissions) : paragraphDelayOver(t))

SpecBatchLive == InitBatch /\ [][NextBatch]_vars /\ LookupsResolve

\* C27: a submission in flight is eventually no longer in flight; the step
\* that ends it comes after its last batch, clears the loading flag and either
\* appends the record with the added words or reports that no word was new.
C27_SubmissionCompletes ==
    /\ (submissions # EmptyBag) ~> (submissions = EmptyBag /\ ~isLoading)
    /\ [][Committed =>
             /\ \A t \in BagToSet(submissions) : t.i + batchSize >= Len(t.found)
             /\ isLoading' = FALSE
             /\ \/ /\ Len(savedParagraphs') = Len(savedParagraphs) + 1
                   /\ error' = NoError
                   /\ \A k \in 1..Len(savedParagraphs'[Len(savedParagraphs')].words) :
                         Includes(highlightedWords',
                                  savedParagraphs'[Len(savedParagraphs')].words[k])
                \/ /\ error' = "NoNewWords"
                   /\ UNCHANGED <<savedParagraphs, highlightedWords>>]_vars

\* The submission of three batches is over: its record holds every candidate
\* but the one that was highlighted before.
C27_Witness ==
    /\ submissions = EmptyBag
    /\ ~isLoading
    /\ Len(savedParagraphs) = 1
    /\ Len(savedParagraphs[1].words) = 2 * batchSize
    /\ Len(highlightedWords) = 2 * batchSize + 1

\* C28: the active-model index is -1 or the index of a model of the current
\* model list.
C28_ActiveIndexValid ==
    activeModelIndex = -1 \/ (0 <= activeModelIndex /\ activeModelIndex < Len(models))

\* C29: a step that changes the model list appends one model that was not in
\* it or takes one model out of it; the models left stay in their order.
C29_ModelListByLoadAndRemove ==
    [][models' # models =>
          \/ /\ Len(embeddings') = Len(embeddings) + 1
             /\ models' = Append(models, Len(embeddings'))
          \/ \E i \in 0..(Len(models) - 1) :
                /\ removeModel(i)
                /\ models' = withoutIndex(models, i)]_vars

\* C30: the step that completes a submission and appends its words keeps
\* every word that was highlighted when it ran and puts no word into the
\* highlight set but the words of its record: what was added or removed
\* while its lookups were in flight stays added or removed.
C30_NoHighlightUpdateLost ==
    [][(Committed /\ Len(savedParagraphs') = Len(savedParagraphs) + 1) =>
          LET record == savedParagraphs'[Len(savedParagraphs')]
              after == {highlightedWords'[k] : k \in 1..Len(highlightedWords')}
          IN  /\ Highlighted \subseteq after
              /\ after \subseteq Highlighted \cup {record.words[k] : k \in 1..Len(record.words)}]_vars

\* C31: the highlight set holds no word twice.
C31_NoWordTwice == NoDuplicates(highlightedWords)

\* C32: with a model active, every key of it that has a part-of-speech cache
\* entry carries the cached part of speech as the tag of its embedding.
C32_TagEqualsCache ==
    InRange(models, activeModelIndex) =>
        \A w \in Vocabulary(ActiveModel) \cap DOMAIN wordPos :
            embeddings[ActiveModel][w] = wordPos[w]

\* C33: with no model active the highlight set is empty.
C33_NoModelNoHighlight == activeModelIndex = -1 => highlightedWords = <<>>

\* ------------------------------------------- the effect's lookups resolve
\* Every lookup that fetchWordData awaits (line 701) is answered, with an
\* entry, without one, or with a failure.
FetchesResolve ==
    WF_vars(\E t \in BagToSet(fetches), r \in Responses : fetchResolved(t, r))

SpecFetchLive == Init /\ [][Next]_vars /\ FetchesResolve

\* C34: from some point on no run of the automatic fetch is awaiting a
\* lookup (or the page no longer renders): the fetch over the highlighted
\* words comes to rest, whatever the service answers.
C34_FetchQuiesces == <>[](fetches = EmptyBag \/ ~Mounted)

\* C35: no word stands in the words lists of two paragraph records.
C35_ParagraphWordsDisjoint ==
    \A j, k \in 1..Len(savedParagraphs) :
        j # k =>
            {savedParagraphs[j].words[i] : i \in 1..Len(savedParagraphs[j].words)}
              \cap {savedParagraphs[k].words[i] : i \in 1..Len(savedParagraphs[k].words)} = {}

====
